---- MODULE Spec2Model ----
(***************************************************************************)
(* The itinerary worker of src/src/index.js: one fetch handler that        *)
(* validates a request, writes a "processing" document to Firestore,       *)
(* answers 202 with a job id and hands the generation callback to          *)
(* ctx.waitUntil.                                                          *)
(*                                                                         *)
(* Strings whose content no branch of the code reads are modelled by their *)
(* length (error messages), timestamps by a tagged value, the itinerary    *)
(* array by a sequence of abstract days.  External services (the token     *)
(* endpoint, Firestore, the OpenAI API) answer nondeterministically.       *)
(***************************************************************************)
EXTENDS Integers, Sequences, FiniteSets, TLC

\* ------------------------------------------------------------------ bounds
MaxReq == 2            \* requests handled (concurrently) in one run
LongLen == 300         \* a representative message longer than the cut

\* ------------------------------------------------------ program constants
MaxErrLen == 255       \* err.message?.substring(0, 255)
RawCut == 500          \* rawText.substring(0, 500)
LenUnknownError == 13  \* 'Unknown error'
LenMissingKey == 22    \* 'Missing OPENAI_API_KEY'
LenNoContent == 31     \* 'No response content from OpenAI'
LenBadShape == 58      \* 'Invalid itinerary format: expected array under "itinerary"'
LenParsePrefix == 36   \* 'Failed to parse LLM output as JSON: '
LenParseInfix == 7     \* '. Raw: '
LenParseSuffix == 3    \* '...'
LenTokenPrefix == 28   \* 'Failed to get access token: '
LenKeyPrefix == 30     \* 'Failed to decode private key: '
LenStorePrefix == 21   \* 'Firestore error <3 digits>: '
LenApiPrefix == 18     \* 'OpenAI API error: '
LenUndefined == 9      \* String(undefined)
LenEmptyJson == 2      \* JSON.stringify({})

Reqs == 1..MaxReq
Ids == 1..MaxReq       \* the UUIDs crypto.randomUUID() hands out in one run
NoId == 0

Min(a, b) == IF a <= b THEN a ELSE b

\* ------------------------------------------------------------------ values
Undef == [t |-> "undefined"]
Null == [t |-> "null"]
Absent == [t |-> "absent"]          \* a field the stored document does not have
Ts == [t |-> "ts"]                  \* new Date()
StrV(s) == [t |-> "str", s |-> s]
NumV(h) == [t |-> "num", h |-> h]   \* the number h/2 (halves carry 1.5)
ArrV(a) == [t |-> "arr", a |-> a]
MsgV(n) == [t |-> "str", len |-> n] \* a message of n characters

\* JavaScript truthiness of a request field (line 37: !destination, !durationDays)
Truthy(v) ==
  CASE v.t = "undefined" -> FALSE
    [] v.t = "null" -> FALSE
    [] v.t = "str" -> v.s # ""
    [] v.t = "num" -> v.h # 0
    [] OTHER -> TRUE

\* Line 37, negated: the input the handler accepts.
ValidateInput(destination, durationDays) ==
  /\ Truthy(destination)
  /\ Truthy(durationDays)
  /\ durationDays.t = "num"
  /\ ~(durationDays.h <= 0)

\* What the spec calls valid: non-empty text and a positive integer.
IsInteger(v) == v.t = "num" /\ v.h % 2 = 0
SpecValid(destination, durationDays) ==
  /\ destination.t = "str" /\ destination.s # ""
  /\ IsInteger(durationDays) /\ durationDays.h > 0

\* ------------------------------------------------------------------ inputs
Destinations == {Undef, StrV(""), StrV("Paris")}
Durations == {Undef, NumV(0), NumV(-2), NumV(4), NumV(3), StrV("3")}
JsonBodies == [t : {"json"}, destination : Destinations, durationDays : Durations]
GoodBody == [t |-> "json", destination |-> StrV("Paris"), durationDays |-> NumV(4)]
BadBody == [t |-> "unparseable"]
Requests ==
  [method : {"POST"}, json : {TRUE}, body : JsonBodies \cup {BadBody}]
    \cup [method : {"OPTIONS", "GET"}, json : {TRUE}, body : {GoodBody}]
    \cup [method : {"POST"}, json : {FALSE}, body : {GoodBody}]
NoRequest == [method |-> "none", json |-> FALSE, body |-> BadBody]

Envs == [gcp : BOOLEAN, keyOk : BOOLEAN, openai : BOOLEAN]

Phases == {"processing", "completed", "failed"}
Terminal == {"completed", "failed"}

Fields == {"status", "destination", "durationDays", "createdAt", "completedAt",
           "itinerary", "error"}
NoDoc == [f \in Fields |-> Absent]   \* no document under this id
NoResp == [status |-> 0, jobId |-> NoId]
Resp(s) == [status |-> s, jobId |-> NoId]

ExtLens == {0, LongLen}              \* lengths of messages the runtime or a service words
RawLens == {1, LongLen + LongLen}    \* lengths of a non-empty rawText
Itineraries == {<<>>, <<"day1">>}    \* arrays found under "itinerary"

VARIABLES
  env,      \* the worker's bindings: GCP credentials, a decodable key, OPENAI_API_KEY
  job,      \* per request: the handler's and the callback's locals, and what it did
  docs,     \* Firestore: the document stored under each id
  encIn,    \* toFirestoreFormat: its argument obj
  encOut    \* toFirestoreFormat: the fields it returned

vars == <<env, job, docs, encIn, encOut>>

\* Fields of job[r]:
\*   pc      where the handler or the callback stands
\*   req     the request as received
\*   jobId   const jobId (line 41)
\*   phase   data.status of the running saveToFirestore call
\*   token   const token (line 166)
\*   errLen  err.message in the callback's catch (line 283): its length, -1 none
\*   itin    parsed.itinerary
\*   resp    the Response returned to the caller
\*   llmOut  what the callback made of the OpenAI answer (LlmClass)
\*   tok, patch, llm, started, save, saved: calls made so far (token-endpoint
\*           requests, PATCH requests, OpenAI requests, callback runs,
\*           saveToFirestore calls begun and returned, by data.status)
\*   threw, tokThrew: saveToFirestore and getAccessToken calls that threw
\*   lost    PATCHes the store applied whose answer did not reach the worker
NoJob ==
  [pc |-> "idle", req |-> NoRequest, jobId |-> NoId, phase |-> "none",
   token |-> "none", errLen |-> -1, itin |-> <<>>, resp |-> NoResp,
   llmOut |-> "none", tok |-> 0, patch |-> 0, llm |-> 0, started |-> 0,
   save |-> [p \in Phases |-> 0], saved |-> [p \in Phases |-> 0],
   threw |-> [p \in Phases |-> 0], tokThrew |-> [p \in Phases |-> 0],
   lost |-> 0]

\* The handler passes its records to toFirestoreFormat inside saveToFirestore;
\* the operator is studied on its own under EncSpec, and encIn, encOut rest here.
NotEncoded == [t |-> "none"]

Init ==
  /\ env \in Envs
  /\ job = [r \in Reqs |-> NoJob]
  /\ docs = [i \in Ids |-> NoDoc]
  /\ encIn = NotEncoded
  /\ encOut = NotEncoded

Issued == {job[r].jobId : r \in Reqs} \ {NoId}

\* ------------------------------------------------------- saveToFirestore
\* StartSave with the token of an earlier call kept and used again.
StartSave_Cached(j, ph) ==
  [j EXCEPT !.phase = ph, !.save[ph] = @ + 1,
            !.pc = IF j.token = "issued" THEN "patch" ELSE "token"]

\* Lines 164-166: a call of saveToFirestore(data) with data.status = ph begins.
StartSave(j, ph) ==
  [j EXCEPT !.phase = ph, !.pc = "token", !.token = "none", !.save[ph] = @ + 1]

\* ErrorField without the cut to 255 characters.
ErrorField_NoCut(len) == MsgV(IF len = 0 THEN LenUnknownError ELSE len)

\* Line 289: err.message?.substring(0, 255) || 'Unknown error'
ErrorField(len) ==
  MsgV(IF Min(len, MaxErrLen) = 0 THEN LenUnknownError ELSE Min(len, MaxErrLen))

\* Data with the processing write leaving completedAt out.
Data_NoCompletedAt(j) ==
  CASE j.phase = "processing" ->
         [status |-> StrV("processing"),
          destination |-> j.req.body.destination,
          durationDays |-> j.req.body.durationDays,
          createdAt |-> Ts, completedAt |-> Absent,
          itinerary |-> ArrV(<<>>), error |-> Null]
    [] j.phase = "completed" ->
         [status |-> StrV("completed"),
          destination |-> Absent, durationDays |-> Absent, createdAt |-> Absent,
          completedAt |-> Ts, itinerary |-> ArrV(j.itin), error |-> Null]
    [] j.phase = "failed" ->
         [status |-> StrV("failed"),
          destination |-> Absent, durationDays |-> Absent, createdAt |-> Absent,
          completedAt |-> Ts, itinerary |-> Absent, error |-> ErrorField(j.errLen)]

\* Data with the completing write storing an empty itinerary.
Data_EmptyItinerary(j) ==
  CASE j.phase = "processing" ->
         [status |-> StrV("processing"),
          destination |-> j.req.body.destination,
          durationDays |-> j.req.body.durationDays,
          createdAt |-> Ts, completedAt |-> Null,
          itinerary |-> ArrV(<<>>), error |-> Null]
    [] j.phase = "completed" ->
         [status |-> StrV("completed"),
          destination |-> Absent, durationDays |-> Absent, createdAt |-> Absent,
          completedAt |-> Ts, itinerary |-> ArrV(<<>>), error |-> Null]
    [] j.phase = "failed" ->
         [status |-> StrV("failed"),
          destination |-> Absent, durationDays |-> Absent, createdAt |-> Absent,
          completedAt |-> Ts, itinerary |-> Absent, error |-> ErrorField(j.errLen)]

\* The object handed to saveToFirestore at lines 190-198, 275-280 and 286-290.
Data(j) ==
  CASE j.phase = "processing" ->
         [status |-> StrV("processing"),
          destination |-> j.req.body.destination,
          durationDays |-> j.req.body.durationDays,
          createdAt |-> Ts, completedAt |-> Null,
          itinerary |-> ArrV(<<>>), error |-> Null]
    [] j.phase = "completed" ->
         [status |-> StrV("completed"),
          destination |-> Absent, durationDays |-> Absent, createdAt |-> Absent,
          completedAt |-> Ts, itinerary |-> ArrV(j.itin), error |-> Null]
    [] j.phase = "failed" ->
         [status |-> StrV("failed"),
          destination |-> Absent, durationDays |-> Absent, createdAt |-> Absent,
          completedAt |-> Ts, itinerary |-> Absent, error |-> ErrorField(j.errLen)]

\* Line 46: the document DOC_URL names, the last path segment being the jobId.
DocKey_Shared(j) == 1
DocKey(j) == j.jobId

\* What Firestore stores on PATCH <DOC_URL> (lines 46, 167-174).  The URL carries
\* no updateMask query parameter; documents.patch without a mask replaces the
\* document, so the stored document becomes exactly the fields of the body (a
\* field of the old document that the body leaves out is gone).
StoreApply(old, data) == data

\* Lines 282 and 291-294: the callback ends; its locals go out of scope.
Finish(j) == [j EXCEPT !.pc = "done", !.phase = "none", !.token = "none", !.errLen = -1]

\* Lines 283-294 (entry): the callback's catch takes err and starts the failing write.
CatchCallback(j, len) == StartSave([j EXCEPT !.errLen = len], "failed")

\* SaveThrows with the handler answering 202 and scheduling the callback although
\* the processing write failed.
SaveThrows_Ack(j, len) ==
  LET k == [j EXCEPT !.threw[j.phase] = @ + 1] IN
  CASE j.phase = "processing" ->
         [k EXCEPT !.resp = [status |-> 202, jobId |-> j.jobId],
                   !.pc = "scheduled", !.phase = "none", !.token = "none"]
    [] j.phase = "completed" -> CatchCallback(k, len)
    [] j.phase = "failed" -> Finish(k)

\* SaveThrows with the failing write tried again when it fails.
SaveThrows_Retry(j, len) ==
  LET k == [j EXCEPT !.threw[j.phase] = @ + 1] IN
  CASE j.phase = "processing" ->
         [k EXCEPT !.resp = Resp(500), !.pc = "responded", !.phase = "none",
                   !.token = "none"]
    [] j.phase = "completed" -> CatchCallback(k, len)
    [] j.phase = "failed" -> StartSave(k, "failed")

\* SaveThrows with the callback's catch dropping the error of the completing write.
SaveThrows_Swallow(j, len) ==
  LET k == [j EXCEPT !.threw[j.phase] = @ + 1] IN
  CASE j.phase = "processing" ->
         [k EXCEPT !.resp = Resp(500), !.pc = "responded", !.phase = "none",
                   !.token = "none"]
    [] j.phase = "completed" -> Finish(k)
    [] j.phase = "failed" -> Finish(k)

\* saveToFirestore rethrows (line 184) an error whose message has len characters:
\* what the caller's catch does at lines 199-202, 283-290 and 291-293.
SaveThrows(j, len) ==
  LET k == [j EXCEPT !.threw[j.phase] = @ + 1] IN
  CASE j.phase = "processing" ->
         [k EXCEPT !.resp = Resp(500), !.pc = "responded", !.phase = "none",
                   !.token = "none"]
    [] j.phase = "completed" -> CatchCallback(k, len)
    [] j.phase = "failed" -> Finish(k)

\* saveToFirestore returns (line 181): lines 204-297, 282 and the end of the catch.
\* Lines 204-297 build the 202 response, pass the callback to ctx.waitUntil and return.
SaveReturns(j) ==
  CASE j.phase = "processing" ->
         [j EXCEPT !.saved["processing"] = @ + 1,
                   !.resp = [status |-> 202, jobId |-> j.jobId],
                   !.pc = "scheduled", !.phase = "none", !.token = "none"]
    [] j.phase = "completed" -> Finish([j EXCEPT !.saved["completed"] = @ + 1])
    [] j.phase = "failed" -> Finish([j EXCEPT !.saved["failed"] = @ + 1])

\* ------------------------------------------------------------------ handler
Reject(j, q, s) == [j EXCEPT !.req = q, !.resp = Resp(s), !.pc = "responded"]

\* Lines 2-58 and 188-190: the handler up to its first network call.
Receive(r) ==
  /\ job[r].pc = "idle"
  /\ \E q \in Requests :
       IF q.method = "OPTIONS"
         THEN job' = [job EXCEPT ![r] = Reject(@, q, 204)]
       ELSE IF q.method # "POST"
         THEN job' = [job EXCEPT ![r] = Reject(@, q, 405)]
       ELSE IF ~q.json \/ q.body.t # "json"
         THEN job' = [job EXCEPT ![r] = Reject(@, q, 400)]
       ELSE IF ~ValidateInput(q.body.destination, q.body.durationDays)
         THEN job' = [job EXCEPT ![r] = Reject(@, q, 400)]
       ELSE \E id \in Ids \ Issued :
              IF ~env.gcp
                THEN job' = [job EXCEPT ![r] = Reject([@ EXCEPT !.jobId = id], q, 500)]
                ELSE job' = [job EXCEPT ![r] =
                               StartSave([@ EXCEPT !.req = q, !.jobId = id], "processing")]
  /\ UNCHANGED <<env, docs, encIn, encOut>>

\* Lines 69-128: getAccessToken, called at line 166.
TokenOutcomes == {"token", "noToken", "non2xx", "unparseable", "transport"}
GetAccessToken(r) ==
  /\ job[r].pc = "token"
  /\ IF ~env.keyOk
       THEN \E m \in ExtLens :
              job' = [job EXCEPT ![r] =
                        SaveThrows([@ EXCEPT !.tokThrew[job[r].phase] = @ + 1],
                                   LenKeyPrefix + m)]
       ELSE \E o \in TokenOutcomes, m \in ExtLens :
              LET j == [job[r] EXCEPT !.tok = @ + 1]
                  t == [j EXCEPT !.tokThrew[j.phase] = @ + 1] IN
              job' = [job EXCEPT ![r] =
                CASE o = "token" -> [j EXCEPT !.token = "issued", !.pc = "patch"]
                  [] o = "noToken" -> [j EXCEPT !.token = "undefined", !.pc = "patch"]
                  [] o = "non2xx" ->
                       SaveThrows(t, LenTokenPrefix + (IF m = 0 THEN LenEmptyJson ELSE m))
                  [] OTHER -> SaveThrows(t, m)]
  /\ UNCHANGED <<env, docs, encIn, encOut>>

\* Lines 167-185: the PATCH and what saveToFirestore makes of its answer.
\*   ok        applied, 2xx
\*   rejected  not applied, non-2xx
\*   neterr    not applied, fetch rejects
\*   lost      applied, but the answer never reaches the worker (fetch rejects)
PatchOutcomes(tk) ==
  IF tk = "issued" THEN {"ok", "rejected", "neterr", "lost"} ELSE {"rejected", "neterr"}
Patch(r) ==
  /\ job[r].pc = "patch"
  /\ \E o \in PatchOutcomes(job[r].token), m \in ExtLens :
       LET j == [job[r] EXCEPT !.patch = @ + 1,
                               !.lost = IF o = "lost" THEN @ + 1 ELSE @] IN
       /\ docs' = IF o \in {"ok", "lost"}
                    THEN [docs EXCEPT ![DocKey(j)] = StoreApply(@, Data(j))]
                    ELSE docs
       /\ job' = [job EXCEPT ![r] =
            CASE o = "ok" -> SaveReturns(j)
              [] o = "rejected" ->
                   SaveThrows(j, LenStorePrefix + (IF m = 0 THEN LenEmptyJson ELSE m))
              [] OTHER -> SaveThrows(j, m)]
  /\ UNCHANGED <<env, encIn, encOut>>

\* ----------------------------------------------------------------- callback
\* Line 216: ctx.waitUntil is given the async function itself, not the promise of
\* a call of it.  The Workers runtime resolves a non-promise argument as a value:
\* the function is never called, and the job's work ends here.  InvokeCallback
\* below is the other outcome, a host that calls what it was given, so that the
\* body of the callback (lines 217-294) is part of the model.
WaitUntilSettle(r) ==
  /\ job[r].pc = "scheduled"
  /\ job' = [job EXCEPT ![r].pc = "settled"]
  /\ UNCHANGED <<env, docs, encIn, encOut>>

\* InvokeCallback with the completing write begun before the OpenAI API is called.
InvokeCallback_WriteFirst(r) ==
  /\ job[r].pc = "scheduled"
  /\ job' = [job EXCEPT ![r] = StartSave([@ EXCEPT !.started = @ + 1], "completed")]
  /\ UNCHANGED <<env, docs, encIn, encOut>>

\* Lines 216-247: a host that calls the function it was given; the callback runs
\* up to its fetch of the OpenAI API.
InvokeCallback(r) ==
  /\ job[r].pc = "scheduled"
  /\ LET j == [job[r] EXCEPT !.started = @ + 1] IN
     job' = [job EXCEPT ![r] =
       IF ~env.openai THEN CatchCallback(j, LenMissingKey)
       ELSE [j EXCEPT !.llm = @ + 1, !.pc = "llm"]]
  /\ UNCHANGED <<env, docs, encIn, encOut>>

\* Lines 249-272: err.message of what the callback throws on an OpenAI answer.
\*   transport  fetch rejects                       badBody   the body is not JSON
\*   httpError  non-2xx                             noChoices no choices array
\*   noContent  empty or missing message content    malformed content is not JSON
\*   nullJson   content is the JSON null            noArray   no array under itinerary
LlmFailures == {"transport", "badBody", "httpError", "noChoices", "noContent",
                "malformed", "nullJson", "noArray"}
LlmError(o, m, raw) ==
  CASE o = "httpError" -> IF m # 0 THEN m ELSE LenApiPrefix + LenUndefined
    [] o = "noContent" -> LenNoContent
    [] o = "malformed" ->
         LenParsePrefix + m + LenParseInfix + Min(raw, RawCut) + LenParseSuffix
    [] o = "noArray" -> LenBadShape
    [] OTHER -> m

\* Which check of lines 229-272 an answer fails: the call itself (fetch rejects,
\* or a non-2xx status, 229 and 252), the parse of the content (265), the array
\* check (270, and 270's read of a property of null), or another one.
LlmClass(o) ==
  CASE o \in {"transport", "httpError"} -> "callFailed"
    [] o = "malformed" -> "malformed"
    [] o \in {"nullJson", "noArray"} -> "noArray"
    [] OTHER -> "unusable"

\* Lines 249-280: the OpenAI answer arrives; parse, check, start the completing write.
LlmResponse(r) ==
  /\ job[r].pc = "llm"
  /\ \/ \E o \in LlmFailures, m \in ExtLens, raw \in RawLens :
          /\ o # "malformed" => raw = 1
          /\ o \in {"noContent", "noArray"} => m = 0
          /\ job' = [job EXCEPT ![r] =
                       CatchCallback([@ EXCEPT !.llmOut = LlmClass(o)],
                                     LlmError(o, m, raw))]
     \/ \E a \in Itineraries :
          job' = [job EXCEPT ![r] =
                    StartSave([@ EXCEPT !.llmOut = "ok", !.itin = a], "completed")]
  /\ UNCHANGED <<env, docs, encIn, encOut>>

Next ==
  \E r \in Reqs :
    \/ Receive(r)
    \/ GetAccessToken(r)
    \/ Patch(r)
    \/ WaitUntilSettle(r)
    \/ InvokeCallback(r)
    \/ LlmResponse(r)

Spec == Init /\ [][Next]_vars

\* ------------------------------------------------------ toFirestoreFormat
\* JavaScript numbers.  A finite double is sg * (hi * Base + lo + half/2) with
\* 0 <= lo < Base: two limbs, so that 2 ** 53 and its neighbours are exact.
Base == 2^27
Dbl(sg, hi, lo, half) ==
  [t |-> "number", k |-> "finite", sg |-> sg, hi |-> hi, lo |-> lo, half |-> half]
NaN == [t |-> "number", k |-> "NaN", sg |-> 1, hi |-> 0, lo |-> 0, half |-> 0]
Infinity(sg) == [t |-> "number", k |-> "Infinity", sg |-> sg, hi |-> 0, lo |-> 0, half |-> 0]
IntV(n) == IF n < 0 THEN Dbl(-1, 0, -n, 0) ELSE Dbl(1, 0, n, 0)
TwoPow53 == Dbl(1, 2^26, 0, 0)                 \* 2 ** 53
Neg(x) == [x EXCEPT !.sg = -@]                 \* unary minus
IsZero(x) == x.k = "finite" /\ x.hi = 0 /\ x.lo = 0 /\ x.half = 0

BoolV(b) == [t |-> "boolean", b |-> b]
ObjV(o) == [t |-> "object", o |-> o]           \* a plain object: key -> value
FunV == [t |-> "function"]

\* Number.isInteger(value)
NumberIsInteger(value) == value.k = "finite" /\ value.half = 0

\* a <= b on numbers (false when either is NaN; -0 equals 0)
MagLeq(a, b) ==
  \/ a.hi < b.hi
  \/ a.hi = b.hi /\ a.lo < b.lo
  \/ a.hi = b.hi /\ a.lo = b.lo /\ a.half <= b.half
Leq(a, b) ==
  CASE a.k = "NaN" \/ b.k = "NaN" -> FALSE
    [] a.k = "Infinity" -> a.sg = -1 \/ (b.k = "Infinity" /\ b.sg = 1)
    [] b.k = "Infinity" -> b.sg = 1
    [] a.sg = -1 /\ b.sg = 1 -> TRUE
    [] a.sg = 1 /\ b.sg = -1 -> IsZero(a) /\ IsZero(b)
    [] a.sg = 1 /\ b.sg = 1 -> MagLeq(a, b)
    [] OTHER -> MagLeq(b, a)

\* The range test with the upper end left out.
InIntegerRange_Open(value) ==
  /\ NumberIsInteger(value)
  /\ Leq(Neg(TwoPow53), value)
  /\ Leq(value, TwoPow53) /\ ~Leq(TwoPow53, value)

\* Line 138: Number.isInteger(value) && value >= -(2 ** 53) && value <= (2 ** 53)
InIntegerRange(value) ==
  /\ NumberIsInteger(value)
  /\ Leq(Neg(TwoPow53), value)
  /\ Leq(value, TwoPow53)

\* String(value) of an integer below 1e21: its decimal digits, most significant
\* first, by repeated division by ten; "-" in front of a negative one, none in
\* front of -0.
DigitChars == <<"0", "1", "2", "3", "4", "5", "6", "7", "8", "9">>
RECURSIVE Digits(_, _)
Digits(hi, lo) ==
  LET t == (hi % 10) * Base + lo IN
  IF hi = 0 /\ lo < 10
    THEN <<DigitChars[lo + 1]>>
    ELSE Digits(hi \div 10, t \div 10) \o <<DigitChars[(t % 10) + 1]>>
String(value) ==
  IF value.sg = -1 /\ ~IsZero(value)
    THEN <<"-">> \o Digits(value.hi, value.lo)
    ELSE Digits(value.hi, value.lo)

\* value.toISOString()
toISOString(value) == [t |-> "str", iso |-> value]

\* { v }: the object whose one property v holds the item
Wrap_OtherKey(v) == [key \in {"value"} |-> v]
Wrap(v) == [key \in {"v"} |-> v]
\* fields.v: undefined when fields has no property v
DotV(fields) == IF "v" \in DOMAIN fields THEN fields["v"] ELSE Undef

\* Lines 130-161.  An object is a function from its keys to its values, and so
\* is the result; a value no branch of the chain takes leaves no field.
RECURSIVE toFirestoreFormat(_)
toFirestoreFormat(obj) ==
  LET taken == {"null", "str", "number", "boolean", "ts", "arr", "object"}
      field(value) ==
        CASE value.t = "null" -> [nullValue |-> Null]
          [] value.t = "str" -> [stringValue |-> value.s]
          [] value.t = "number" ->
               IF InIntegerRange(value)
                 THEN [integerValue |-> String(value)]
                 ELSE [doubleValue |-> value]
          [] value.t = "boolean" -> [booleanValue |-> value.b]
          [] value.t = "ts" -> [timestampValue |-> toISOString(value)]
          [] value.t = "arr" ->
               [arrayValue |->
                  [values |-> [i \in 1..Len(value.a) |->
                                 DotV(toFirestoreFormat(Wrap(value.a[i])))]]]
          [] value.t = "object" ->
               [mapValue |-> [fields |-> toFirestoreFormat(value.o)]]
  IN [key \in {k \in DOMAIN obj : obj[k].t \in taken} |-> field(obj[key])]

\* ---- the encoder on its own: one call on an input drawn from bounded sets
MaxLen == 3            \* items of an array
Numbers ==
  LET pos == {IntV(0), IntV(1), IntV(42), Dbl(1, 0, 3, 1), Dbl(1, 7, 1234567, 0),
              Dbl(1, 2^26 - 1, Base - 1, 0), TwoPow53, Dbl(1, 2^26, 2, 0),
              Dbl(1, 2^27, 0, 0), Dbl(1, 1, 0, 1)}
  IN pos \cup {Neg(x) : x \in pos} \cup {NaN, Infinity(1), Infinity(-1)}
Items ==
  {Null, StrV("x"), BoolV(TRUE), IntV(1), Dbl(1, 0, 3, 1), Undef,
   ObjV([b |-> BoolV(TRUE)]), ArrV(<<IntV(1), ArrV(<<>>)>>)}
Arrays == UNION {[1..n -> Items] : n \in 0..MaxLen}
EncInputs ==
  {[a |-> x, n |-> y] : x \in {ArrV(s) : s \in Arrays} \cup {Ts, FunV}, y \in Numbers}

EncInit ==
  /\ env = [gcp |-> TRUE, keyOk |-> TRUE, openai |-> TRUE]
  /\ job = [r \in Reqs |-> NoJob]
  /\ docs = [i \in Ids |-> NoDoc]
  /\ encIn \in EncInputs
  /\ encOut = NotEncoded

Encode ==
  /\ encOut = NotEncoded
  /\ encOut' = toFirestoreFormat(encIn)
  /\ UNCHANGED <<env, job, docs, encIn>>

EncNext == Encode

EncSpec == EncInit /\ [][EncNext]_vars

\* ------------------------------------------------------------- properties
Acked(r) == job[r].resp.status = 202
DocOf(r) == docs[job[r].jobId]
StatusOf(d) == IF d.status = Absent THEN "none" ELSE d.status.s

\* C1: when the handler returns the 202 acknowledgment, the store holds under the
\* returned jobId a document with status processing, an empty itinerary and a null
\* completedAt, and no other request was given the same jobId.
C1_AckHasProcessingDoc ==
  \A r \in Reqs :
    job[r].pc = "scheduled" =>
      /\ Acked(r) /\ job[r].resp.jobId = job[r].jobId /\ job[r].jobId \in Ids
      /\ DocOf(r).status = StrV("processing")
      /\ DocOf(r).itinerary = ArrV(<<>>)
      /\ DocOf(r).completedAt = Null
      /\ \A o \in Reqs \ {r} : job[o].jobId # job[r].jobId

C1_Witness ==
  \E r, o \in Reqs :
    /\ r # o /\ job[r].pc = "scheduled" /\ Acked(o)
    /\ SpecValid(job[r].req.body.destination, job[r].req.body.durationDays)

InvalidInput(q) ==
  /\ q.method = "POST" /\ q.json /\ q.body.t = "json"
  /\ ~SpecValid(q.body.destination, q.body.durationDays)

\* C2: a request whose input is invalid (empty or missing destination; zero,
\* negative, non-integer or missing durationDays) is answered 400 at once (by a
\* worker whose credentials are configured), is given no jobId in the answer,
\* and makes the worker write no document.
C2_InvalidInputRejected ==
  \A r \in Reqs :
    (env.gcp /\ InvalidInput(job[r].req)) =>
      /\ job[r].resp = Resp(400)
      /\ job[r].patch = 0

\* C3: when the synchronous phase fails (credentials missing, token acquisition
\* or the processing write failing) the caller gets a 500 without a jobId, never
\* a 202, and the callback is neither scheduled nor run.
SyncFailed(r) ==
  /\ job[r].jobId # NoId
  /\ job[r].saved["processing"] = 0
  /\ ~(job[r].phase = "processing" /\ job[r].pc \in {"token", "patch"})
C3_SyncFailureNoAck ==
  \A r \in Reqs :
    SyncFailed(r) =>
      /\ job[r].resp = Resp(500)
      /\ job[r].pc = "responded"
      /\ job[r].started = 0 /\ job[r].llm = 0
      /\ job[r].save["completed"] = 0 /\ job[r].save["failed"] = 0

C3_Witness ==
  \E r \in Reqs :
    /\ SyncFailed(r) /\ job[r].patch = 1 /\ job[r].token = "none"
    /\ DocOf(r).status = StrV("processing")

\* C4: a stored status is processing, completed or failed; the first write under
\* an id stores processing; a stored completed or failed status never changes.
C4_StatusMonotonic ==
  [][\A i \in Ids :
       /\ StatusOf(docs'[i]) \in Phases \cup {"none"}
       /\ (StatusOf(docs[i]) = "none" /\ docs'[i] # docs[i]) =>
             StatusOf(docs'[i]) = "processing"
       /\ StatusOf(docs[i]) \in Terminal => StatusOf(docs'[i]) = StatusOf(docs[i])
    ]_vars

\* C5: once the store has applied a completed or failed write for a job, the
\* worker issues no further PATCH for that job.
C5_NoWriteAfterTerminal ==
  [][\A r \in Reqs :
       (job[r].jobId # NoId /\ StatusOf(DocOf(r)) \in Terminal) =>
          job'[r].patch = job[r].patch
    ]_vars

\* C6: an acknowledged job whose work has all been carried out (the OpenAI key
\* being configured) has had the generation backend called for it.
C6_AckedJobGenerates ==
  \A r \in Reqs :
    (Acked(r) /\ env.openai /\ job[r].pc \in {"settled", "done"}) => job[r].llm >= 1

\* C7: a finished job whose OpenAI answer held an array under itinerary and whose
\* completing write succeeded has the document status completed, that array as
\* itinerary, completedAt set and error null.
C7_SuccessPath ==
  \A r \in Reqs :
    (job[r].pc = "done" /\ job[r].llmOut = "ok" /\ job[r].saved["completed"] = 1) =>
      /\ DocOf(r).status = StrV("completed")
      /\ DocOf(r).itinerary = ArrV(job[r].itin)
      /\ DocOf(r).completedAt = Ts
      /\ DocOf(r).error = Null

C7_Witness ==
  \E r \in Reqs :
    /\ job[r].pc = "done" /\ job[r].llmOut = "ok" /\ job[r].saved["completed"] = 1
    /\ job[r].itin = <<"day1">>

\* C8: a finished job whose OpenAI answer was malformed JSON or lacked the
\* itinerary array (its failing write having succeeded) has the document status
\* failed, an error of 1..255 characters, and the itinerary it had before: [].
C8_FailurePath ==
  \A r \in Reqs :
    (/\ job[r].pc = "done" /\ job[r].llmOut \in {"malformed", "noArray"}
     /\ job[r].saved["failed"] = 1) =>
      /\ DocOf(r).status = StrV("failed")
      /\ DocOf(r).error.t = "str" /\ DocOf(r).error.len <= MaxErrLen
      /\ DocOf(r).itinerary = ArrV(<<>>)

\* C9 as claimed: the callback starts only after the processing write succeeded,
\* and a completed or failed write is begun only after the OpenAI API was called.
C9_TerminalAfterGeneration ==
  \A r \in Reqs :
    /\ job[r].started >= 1 => job[r].saved["processing"] = 1
    /\ job[r].save["completed"] + job[r].save["failed"] >= 1 => job[r].llm >= 1

\* C9 as amended: the callback starts only after the processing write succeeded;
\* a terminal write is begun only by the started callback; the completing write
\* only after the OpenAI API was called and answered; a failing write without a
\* call of the OpenAI API only when OPENAI_API_KEY is missing.
C9_TerminalAfterStart ==
  \A r \in Reqs :
    /\ job[r].started >= 1 => job[r].saved["processing"] = 1
    /\ job[r].save["completed"] + job[r].save["failed"] >= 1 => job[r].started >= 1
    /\ job[r].save["completed"] >= 1 => (job[r].llm >= 1 /\ job[r].llmOut = "ok")
    /\ job[r].save["failed"] >= 1 => (job[r].llm >= 1 \/ ~env.openai)

C9_Witness ==
  \E r \in Reqs :
    /\ job[r].save["failed"] = 1 /\ job[r].llm = 0 /\ ~env.openai
    /\ StatusOf(DocOf(r)) = "failed"

C11_RetryOnLlmFailure ==
  \A r \in Reqs :
    (job[r].llmOut = "callFailed" /\ job[r].save["failed"] >= 1) => job[r].llm >= 2

\* Step(r): some step of request r's handler or callback.
Step(r) ==
  \/ Receive(r) \/ GetAccessToken(r) \/ Patch(r)
  \/ WaitUntilSettle(r) \/ InvokeCallback(r) \/ LlmResponse(r)

\* C12 as claimed: once the failing write has failed the job takes no further
\* step and its stored status is processing.
C12_StuckInProcessing ==
  \A r \in Reqs :
    job[r].threw["failed"] >= 1 =>
      /\ ~ENABLED Step(r)
      /\ StatusOf(DocOf(r)) = "processing"

\* C12 as amended: once the failing write has failed the job takes no further
\* step (no write, no external call; the callback has ended), and its stored
\* status is processing unless the store applied a terminal write whose answer
\* did not reach the worker.
C12_NoStepAfterFailedFailingWrite ==
  \A r \in Reqs :
    job[r].threw["failed"] >= 1 =>
      /\ ~ENABLED Step(r)
      /\ job[r].pc = "done"
      /\ job[r].save["failed"] = 1
      /\ job[r].lost = 0 => StatusOf(DocOf(r)) = "processing"
      /\ job[r].lost >= 1 => StatusOf(DocOf(r)) \in Terminal

C12_Witness ==
  \E r \in Reqs :
    /\ job[r].threw["failed"] = 1 /\ job[r].lost = 0 /\ job[r].patch = 2
    /\ StatusOf(DocOf(r)) = "processing"

\* C13: under every interleaving, a step that changes the document under an id
\* is a PATCH of the one job whose jobId is that id, that step changes no other
\* document and no other job's locals, and no two jobs hold the same jobId.
C13_JobsAreIsolated ==
  [][/\ \A i \in Ids :
          docs'[i] # docs[i] =>
            \E r \in Reqs :
              /\ job[r].jobId = i /\ job[r].pc = "patch"
              /\ job'[r].patch = job[r].patch + 1
              /\ \A k \in Ids \ {i} : docs'[k] = docs[k]
              /\ \A o \in Reqs \ {r} : job'[o] = job[o]
     /\ \A r, o \in Reqs :
          (r # o /\ job'[r].jobId # NoId) => job'[r].jobId # job'[o].jobId
    ]_vars

C13_Witness ==
  \E r, o \in Reqs :
    /\ r # o /\ job[r].jobId # NoId /\ job[o].jobId # NoId
    /\ StatusOf(DocOf(r)) = "completed" /\ job[r].pc = "done"
    /\ StatusOf(DocOf(o)) = "processing" /\ job[o].pc = "patch" /\ job[o].phase = "failed"

\* C14: after a completed or failed write the stored document still has the
\* destination, durationDays and createdAt the processing write stored.
C14_TerminalWriteKeepsInputFields ==
  \A r \in Reqs :
    (job[r].jobId # NoId /\ StatusOf(DocOf(r)) \in Terminal) =>
      /\ DocOf(r).destination = job[r].req.body.destination
      /\ DocOf(r).durationDays = job[r].req.body.durationDays
      /\ DocOf(r).createdAt = Ts

\* C15 as claimed: a getAccessToken failure during initialization yields a 500;
\* one during the callback's writes leaves the finished job's document with
\* status failed and a non-null error.
C15_TokenFailureRecorded ==
  \A r \in Reqs :
    /\ job[r].tokThrew["processing"] >= 1 => job[r].resp = Resp(500)
    /\ (/\ job[r].tokThrew["completed"] + job[r].tokThrew["failed"] >= 1
        /\ job[r].pc = "done") =>
          /\ StatusOf(DocOf(r)) = "failed"
          /\ DocOf(r).error.t = "str"

\* C15 as amended: a getAccessToken failure during initialization yields a 500
\* and ends the request; one during the completing write makes the callback
\* attempt the failing write once, carrying a non-empty error, and the document
\* reads failed with that error once that write has returned; one during the
\* failing write itself is only logged and ends the callback.
C15_TokenFailureByPhase ==
  \A r \in Reqs :
    /\ job[r].tokThrew["processing"] >= 1 =>
         (job[r].resp = Resp(500) /\ job[r].pc = "responded")
    /\ job[r].tokThrew["completed"] >= 1 =>
         /\ job[r].save["failed"] = 1
         /\ job[r].phase = "failed" =>
              (Data(job[r]).error.t = "str" /\ Data(job[r]).error.len >= 1)
         /\ job[r].saved["failed"] = 1 =>
              /\ StatusOf(DocOf(r)) = "failed"
              /\ DocOf(r).error.t = "str" /\ DocOf(r).error.len >= 1
    /\ job[r].tokThrew["failed"] >= 1 =>
         (job[r].pc = "done" /\ job[r].saved["failed"] = 0)

C15_Witness ==
  \E r \in Reqs :
    /\ job[r].tokThrew["completed"] = 1 /\ job[r].saved["failed"] = 1
    /\ StatusOf(DocOf(r)) = "failed" /\ DocOf(r).error = MsgV(LenUnknownError)

\* DetachedFailed(r): something in the callback's try block has thrown.
DetachedFailed(r) ==
  /\ job[r].started >= 1
  /\ \/ ~env.openai
     \/ job[r].llmOut \in {"callFailed", "unusable", "malformed", "noArray"}
     \/ job[r].threw["completed"] >= 1

\* C17: a job's failing write is attempted exactly once if something in the
\* detached phase failed (the OpenAI call, parsing, the shape check, the
\* completing write) and not at all otherwise; what it carries is status
\* failed, a completedAt timestamp and an error of 1 to 255 characters.
C17_OneFailingWrite ==
  \A r \in Reqs :
    /\ DetachedFailed(r) => job[r].save["failed"] = 1
    /\ ~DetachedFailed(r) => job[r].save["failed"] = 0
    /\ job[r].phase = "failed" =>
         /\ Data(job[r]).status = StrV("failed")
         /\ Data(job[r]).completedAt = Ts
         /\ Data(job[r]).error.t = "str"
         /\ Data(job[r]).error.len >= 1 /\ Data(job[r]).error.len <= MaxErrLen

C17_Witness ==
  \E r \in Reqs :
    /\ job[r].phase = "failed" /\ job[r].pc = "patch"
    /\ job[r].threw["completed"] = 1 /\ job[r].errLen > MaxErrLen

Saves(r) == job[r].save["processing"] + job[r].save["completed"] + job[r].save["failed"]
TokThrows(r) ==
  job[r].tokThrew["processing"] + job[r].tokThrew["completed"] + job[r].tokThrew["failed"]
InTok(r) == IF job[r].pc = "token" THEN 1 ELSE 0
InPatch(r) == IF job[r].pc = "patch" THEN 1 ELSE 0

\* C18 as claimed: the token endpoint has been asked once for every upsert that
\* is past its getAccessToken call, no upsert starts with a token in hand, and
\* an upsert sends its PATCH exactly when its getAccessToken did not throw.
C18_TokenPerUpsert ==
  \A r \in Reqs :
    /\ job[r].tok = Saves(r) - InTok(r)
    /\ job[r].pc = "token" => job[r].token = "none"
    /\ job[r].patch + InPatch(r) + TokThrows(r) = Saves(r) - InTok(r)

\* C18 as amended: every upsert calls getAccessToken afresh before its PATCH and
\* sends the PATCH exactly when that call returned; the token endpoint has been
\* asked once per such call when the private key can be decoded and imported,
\* and never when it cannot (the call throws before the request).
C18_FreshTokenCallPerUpsert ==
  \A r \in Reqs :
    /\ env.keyOk => job[r].tok = Saves(r) - InTok(r)
    /\ ~env.keyOk => (job[r].tok = 0 /\ job[r].patch = 0)
    /\ job[r].pc = "token" => job[r].token = "none"
    /\ job[r].pc = "patch" => job[r].token # "none"
    /\ job[r].patch + InPatch(r) + TokThrows(r) = Saves(r) - InTok(r)
    /\ job[r].patch <= job[r].tok

C18_Witness ==
  \E r \in Reqs :
    /\ job[r].pc = "done" /\ job[r].tok = 3 /\ job[r].patch = 2
    /\ job[r].tokThrew["failed"] = 1

\* C20: every PATCH is sent with a token the token endpoint issued: whenever
\* getAccessToken has returned, the token in hand is an issued one.
C20_PatchCarriesIssuedToken ==
  \A r \in Reqs : job[r].pc = "patch" => job[r].token = "issued"

\* ---- what the encoder's contract says of a value and the field made of it
Encoded == encOut # NotEncoded
WithinSafeRange(v) ==
  v.k = "finite" /\ v.half = 0 /\ (v.hi < 2^26 \/ (v.hi = 2^26 /\ v.lo = 0))
KindOf(v) ==
  CASE v.t = "null" -> "nullValue"
    [] v.t = "str" -> "stringValue"
    [] v.t = "boolean" -> "booleanValue"
    [] v.t = "ts" -> "timestampValue"
    [] v.t = "arr" -> "arrayValue"
    [] v.t = "object" -> "mapValue"
    [] v.t = "number" -> IF WithinSafeRange(v) THEN "integerValue" ELSE "doubleValue"
    [] OTHER -> "none"
DigitOf(c) == CHOOSE d \in 0..9 : DigitChars[d + 1] = c
\* the two limbs of the number a sequence of digit characters writes
RECURSIVE DecimalValue(_)
DecimalValue(s) ==
  IF s = <<>> THEN <<0, 0>>
  ELSE LET p == DecimalValue(SubSeq(s, 1, Len(s) - 1))
           x == p[2] * 10 + DigitOf(s[Len(s)])
       IN <<p[1] * 10 + x \div Base, x % Base>>
\* s is the decimal string of the integer v: sign, no leading zero, same value
IsDecimalStringOf(s, v) ==
  LET neg == Len(s) >= 1 /\ s[1] = "-"
      digs == IF neg THEN Tail(s) ELSE s
  IN /\ neg <=> (v.sg = -1 /\ ~IsZero(v))
     /\ Len(digs) >= 1
     /\ \A i \in 1..Len(digs) : \E d \in 0..9 : DigitChars[d + 1] = digs[i]
     /\ Len(digs) > 1 => digs[1] # "0"
     /\ DecimalValue(digs) = <<v.hi, v.lo>>
RECURSIVE Typed(_, _)
Typed(v, f) ==
  /\ DOMAIN f = {KindOf(v)}
  /\ v.t = "null" => f.nullValue = Null
  /\ v.t = "str" => f.stringValue = v.s
  /\ v.t = "boolean" => f.booleanValue = v.b
  /\ v.t = "number" =>
       IF WithinSafeRange(v) THEN IsDecimalStringOf(f.integerValue, v)
                             ELSE f.doubleValue = v
  /\ v.t = "arr" =>
       /\ DOMAIN f.arrayValue = {"values"}
       /\ DOMAIN f.arrayValue.values = 1..Len(v.a)
       /\ \A i \in 1..Len(v.a) :
            IF KindOf(v.a[i]) = "none"
              THEN f.arrayValue.values[i] = Undef
              ELSE Typed(v.a[i], f.arrayValue.values[i])
  /\ v.t = "object" =>
       /\ DOMAIN f.mapValue = {"fields"}
       /\ DOMAIN f.mapValue.fields = {k \in DOMAIN v.o : KindOf(v.o[k]) # "none"}
       /\ \A k \in DOMAIN f.mapValue.fields : Typed(v.o[k], f.mapValue.fields[k])

\* C16: an array value is encoded as an array-typed field with exactly one
\* element per item, in order, and every item of a supported type is typed by
\* the rules of a top-level value (integer, string, boolean, null, floating
\* point, nested map, nested array), nested arrays and maps included.
C16_ArraysAndMapsRecurse ==
  (Encoded /\ encIn.a.t = "arr") =>
    /\ "a" \in DOMAIN encOut
    /\ Typed(encIn.a, encOut.a)

C16_Witness ==
  /\ Encoded
  /\ encIn.a = ArrV(<<IntV(1), StrV("x"), ObjV([b |-> BoolV(TRUE)])>>)
  /\ encOut.a.arrayValue.values =
       <<[integerValue |-> <<"1">>], [stringValue |-> "x"],
         [mapValue |-> [fields |-> [b |-> [booleanValue |-> TRUE]]]]>>

\* C19: a number becomes an integer-typed field holding its decimal string
\* exactly when it is integral and within -2^53..2^53 inclusive, and a
\* floating-point-typed field holding the number itself in every other case.
C19_IntegerOrDouble ==
  Encoded =>
    /\ "n" \in DOMAIN encOut
    /\ IF WithinSafeRange(encIn.n)
         THEN /\ DOMAIN encOut.n = {"integerValue"}
              /\ IsDecimalStringOf(encOut.n.integerValue, encIn.n)
         ELSE encOut.n = [doubleValue |-> encIn.n]

C19_Witness ==
  /\ Encoded
  /\ encIn.n = Neg(TwoPow53)
  /\ encOut.n = [integerValue |-> <<"-", "9", "0", "0", "7", "1", "9", "9", "2",
                                    "5", "4", "7", "4", "0", "9", "9", "2">>]
====
